---- MODULE Spec2Model ----
(***************************************************************************)
(* A model of torcheeg/trainers/generative/wgan_gp.py: the WGAN-GP trainer *)
(* (WGANGPTrainer) and its label-conditioned subclass (CWGANGPTrainer).    *)
(*                                                                         *)
(* Every hook of the trainer (__init__, training_step, validation_step,    *)
(* test_step and the three epoch-end hooks) is a list of statements, in    *)
(* source order; a hook runs by folding Do over its list, and an exception *)
(* raised by a statement ends the fold.  One action of the model is one    *)
(* whole call of a hook.  The loops of pytorch_lightning that call the     *)
(* hooks are the environment (the actions Fit, Test and the guards of the  *)
(* step actions).                                                          *)
(*                                                                         *)
(* The networks are the smallest ones that have parameters: the generator  *)
(* is g(z, y) = w * sum(z) + y and the discriminator is d(x, y) = v * x    *)
(* + y on samples of width 1 (y is 0 for the unconditioned trainer).       *)
(* Tensors hold integers or exact rationals; rounding is not modelled.     *)
(* Autograd is modelled by provenance: a tensor carries the set of         *)
(* parameter groups its graph reaches, backward() adds the tag of the loss *)
(* to the .grad of each of them, and an optimizer step replaces the        *)
(* parameter by another value of env.param_vals (Adam's arithmetic is      *)
(* torch's, not this repository's) and records the tags it applied.        *)
(***************************************************************************)
EXTENDS Integers, Sequences, FiniteSets, TLC

VARIABLES
    args,      \* the arguments the constructor is (or was) called with
    self,      \* the trainer object: configuration, networks, accumulators
    trainer,   \* the pl.Trainer driving it: mode, stage, logged_metrics, stdout
    env,       \* what the data loaders and the random generator can yield
    last,      \* the locals and the statement trace of the hook that ran last
    hist,      \* history: losses fed to each accumulator since its phase's last epoch end
    fuel       \* batches the loaders may still serve: well-formed and malformed

vars == <<args, self, trainer, env, last, hist, fuel>>

----------------------------------------------------------------------------
(* Bounds *)

\* well-formed batches the loaders serve over the life of one trainer object
MaxSteps == 2

\* well-formed batches a loader serves in the runs over the wider values
MaxWideSteps == 1

\* malformed batches (samples of the wrong width) among the batches served
MaxBad == 1

\* the largest batch handed to gradient_penalty on its own
MaxBatch == 2

----------------------------------------------------------------------------
(* Optional values, exact rationals *)

None == <<>>
Some(v) == <<v>>
Get(o) == o[1]

Abs(i) == IF i < 0 THEN -i ELSE i

RECURSIVE GCD(_, _)
GCD(a, b) == IF b = 0 THEN a ELSE GCD(b, a % b)

\* the rational n/d in lowest terms, d > 0
Rat(n, d) ==
    LET g == GCD(Abs(n), Abs(d))
        s == IF d < 0 THEN -1 ELSE 1
    IN  <<(s * n) \div g, (s * d) \div g>>

RInt(i) == <<i, 1>>
RAdd(p, q) == Rat(p[1] * q[2] + q[1] * p[2], p[2] * q[2])
RNeg(p) == <<-p[1], p[2]>>
RSub(p, q) == RAdd(p, RNeg(q))
RMul(p, q) == Rat(p[1] * q[1], p[2] * q[2])
RDiv(p, q) == Rat(p[1] * q[2], p[2] * q[1])

RECURSIVE RSum(_)
RSum(s) == IF s = <<>> THEN RInt(0) ELSE RAdd(Head(s), RSum(Tail(s)))

\* torch.mean of a 1-d tensor of rationals
RMean(s) == RDiv(RSum(s), RInt(Len(s)))

Range(s) == {s[i] : i \in DOMAIN s}

\* the value of e, worked out once
Value(e) == CHOOSE v \in {e} : TRUE

----------------------------------------------------------------------------
(* Values of the program *)

Phases == {"train", "val", "test"}
LossNames == {"g_loss", "d_loss"}

\* the name of an accumulator attribute: train_g_loss, val_fid, ...
AccName(phase, metric) == <<phase, metric>>

\* torchmetrics.MeanMetric(): the running sum and the running weight
MeanMetric == [kind |-> "mean", mean_value |-> RInt(0), weight |-> 0]

\* FrechetInceptionDistance(extractor, num_features): the updates it has taken
FrechetInceptionDistance(extractor, num_features) ==
    [kind |-> "fid", feature |-> extractor, num_features |-> num_features,
     real |-> 0, fake |-> 0]

\* InceptionScore(classifier): the updates it has taken
InceptionScore(classifier) == [kind |-> "is", feature |-> classifier, n |-> 0]

NoAcc == [n \in {} |-> MeanMetric]

\* the trainer object before __init__ has run
NoSelf ==
    [state |-> "none", cls |-> "", latent_channels |-> None, metrics |-> {},
     weight_gradient_penalty |-> 0, generator_lr |-> 0, discriminator_lr |-> 0,
     automatic_optimization |-> TRUE,
     metric_extractor |-> None, metric_classifier |-> None,
     metric_num_features |-> None,
     generator |-> [in_channels |-> None, in_features |-> 0, w |-> 0],
     discriminator |-> [v |-> 0, kind |-> "linear"],
     requires_grad |-> [gen |-> TRUE, disc |-> TRUE],
     grad |-> [gen |-> {}, disc |-> {}],
     param_requires_grad_state |-> None,
     acc |-> NoAcc]

NoLocals ==
    [x |-> None, y |-> None, latent |-> None, gen_x |-> None,
     g_loss |-> None, real_loss |-> None, fake_loss |-> None,
     gp_term |-> None, d_loss |-> None, optimizers |-> None, ret |-> None,
     inputs |-> None]

NaN == <<0, 0>>

NoLog == [k \in {} |-> NaN]

Put(f, k, v) == [x \in DOMAIN f \cup {k} |-> IF x = k THEN v ELSE f[x]]

\* the pl.Trainer: what it is running, its optimizers, what was logged and printed
NoTrainer ==
    [mode |-> "idle", stage |-> "", steps |-> 0, more |-> FALSE,
     optimizers |-> None, logged_metrics |-> NoLog,
     progress_bar_metrics |-> NoLog, stdout |-> None]

\* the state a hook runs on: the objects it reads and writes, its locals, the
\* statements it has started, the calls it has made and the exception raised
Frame(s, t) ==
    [self |-> s, tr |-> t, loc |-> NoLocals, ops |-> <<>>, calls |-> <<>>,
     metric_calls |-> <<>>, grad_enabled |-> FALSE, step |-> 0, err |-> None]

Raise(st, e) == [st EXCEPT !.err = Some(e)]

----------------------------------------------------------------------------
(* WGANGPTrainer.__init__ and init_metrics *)

\* lines 83-92: the networks and the scalar hyper-parameters
InitFields(st, a) ==
    [st EXCEPT !.self = [@ EXCEPT !.state = "init", !.cls = a.cls,
                                  !.automatic_optimization = FALSE,
                                  !.generator = a.generator,
                                  !.discriminator = a.discriminator,
                                  !.generator_lr = a.generator_lr,
                                  !.discriminator_lr = a.discriminator_lr,
                                  !.weight_gradient_penalty = a.weight_gradient_penalty]]

\* lines 94-100: latent_channels, taken from generator.in_channels when omitted
InitLatent(st, a) ==
    LET lc == IF a.generator.in_channels # None /\ a.latent_channels = None
              THEN a.generator.in_channels
              ELSE a.latent_channels
    IN  IF lc = None
        THEN Raise(st, "AssertionError: The latent_channels should be specified.")
        ELSE [st EXCEPT !.self.latent_channels = lc]

\* lines 102-110
InitRest(st, a) ==
    [st EXCEPT !.self = [@ EXCEPT !.metrics = a.metrics,
                                  !.metric_extractor = a.metric_extractor,
                                  !.metric_classifier = a.metric_classifier,
                                  !.metric_num_features = a.metric_num_features]]

\* lines 114-121: the six loss accumulators
InitMeanMetrics(st) ==
    [st EXCEPT !.self.acc =
        [n \in {AccName(p, m) : p \in Phases, m \in LossNames} |-> MeanMetric]]

\* lines 123-137: the three 'fid' accumulators, when 'fid' is enabled
InitFid(st) ==
    LET s == st.self
        nf == IF s.metric_extractor # None
                 /\ Get(s.metric_extractor).in_channels # None
                 /\ s.metric_num_features = None
              THEN Get(s.metric_extractor).in_channels
              ELSE s.metric_num_features
    IN  IF "fid" \notin s.metrics THEN st
        ELSE IF s.metric_extractor = None
        THEN Raise(st, "AssertionError: The metric_extractor should be specified.")
        ELSE IF nf = None
        THEN Raise(st, "AssertionError: The metric_num_features should be specified.")
        ELSE [st EXCEPT !.self.metric_num_features = nf,
                        !.self.acc = [n \in {AccName(p, "fid") : p \in Phases} |->
                                         FrechetInceptionDistance(s.metric_extractor, nf)]
                                     @@ @]

\* an InceptionScore that takes anything as feature
InceptionScoreAcceptsAny(feature) == TRUE

\* torchmetrics' InceptionScore.__init__ takes a str, an int or a Module as
\* feature and raises TypeError for anything else, None included
InceptionScoreAccepts(feature) == feature # None

\* lines 139-143: the three 'is' accumulators, when 'is' is enabled; the
\* assertion reads metric_extractor
InitIs(st) ==
    LET s == st.self
    IN  IF "is" \notin s.metrics THEN st
        ELSE IF s.metric_extractor = None
        THEN Raise(st, "AssertionError: The metric_classifier should be specified.")
        ELSE IF ~InceptionScoreAccepts(s.metric_classifier)
        THEN Raise(st, "TypeError: Got unknown input to argument feature")
        ELSE [st EXCEPT !.self.acc = [n \in {AccName(p, "is") : p \in Phases} |->
                                         InceptionScore(s.metric_classifier)]
                                     @@ @]

\* a constructor that creates the loss accumulators before it resolves
\* latent_channels
InitMetricsFirst ==
    <<"init_fields", "init_mean_metrics", "init_latent", "init_rest",
      "init_fid", "init_is">>

\* __init__, lines 83-111, with init_metrics (lines 113-143) inlined at its call
InitProgram ==
    <<"init_fields", "init_latent", "init_rest",
      "init_mean_metrics", "init_fid", "init_is">>

----------------------------------------------------------------------------
(* Tensors, the two networks, autograd *)

\* a tensor: its rows (one per example) and the parameter groups its autograd
\* graph reaches
Tensor(rows, deps) == [v |-> rows, deps |-> deps]

\* Tensor.detach() and Tensor.data: the same values outside any graph
Detach(t) == Tensor(t.v, {})

RECURSIVE Sum(_)
Sum(s) == IF s = <<>> THEN 0 ELSE Head(s) + Sum(Tail(s))

\* the label of example i among the extra positional arguments of a network
\* call: none for WGANGPTrainer, the batch's y for CWGANGPTrainer
LabelOf(nargs, i) == IF nargs = <<>> THEN 0 ELSE nargs[1][i]

LabelsFit(nargs, n) == nargs = <<>> \/ Len(nargs[1]) = n

\* generator(latent, *nargs): a linear layer of in_features inputs and one
\* output; it raises on rows of another width
GeneratorAccepts(g, latent, nargs) ==
    /\ \A i \in DOMAIN latent : Len(latent[i]) = g.in_features
    /\ LabelsFit(nargs, Len(latent))

GeneratorForward(g, latent, nargs) ==
    [i \in DOMAIN latent |-> <<g.w * Sum(latent[i]) + LabelOf(nargs, i)>>]

\* discriminator(x, *nargs), of one of two kinds. "linear": a linear layer
\* of one input and one output, no activation; it raises on samples of
\* another width. "scaling": the identity scaled by v, element by element,
\* on samples of any width.
DiscriminatorAccepts(d, rows, nargs) ==
    /\ d.kind = "linear" => \A i \in DOMAIN rows : Len(rows[i]) = 1
    /\ LabelsFit(nargs, Len(rows))

DiscriminatorForward(d, rows, nargs) ==
    [i \in DOMAIN rows |->
        [j \in DOMAIN rows[i] |-> d.v * rows[i][j] + LabelOf(nargs, i)]]

\* the gradient of sum(discriminator(inputs)) with respect to inputs
DiscriminatorInputGradient(d, rows) ==
    [i \in DOMAIN rows |-> [j \in DOMAIN rows[i] |-> d.v]]

\* the parameter groups a forward pass through a network adds to the graph
\* of its output
GraphOf(s, net) == IF s.requires_grad[net] THEN {net} ELSE {}

\* the elements of a batch of integer rows, one after the other
RECURSIVE Flat(_)
Flat(rows) ==
    IF rows = <<>> THEN <<>>
    ELSE [j \in DOMAIN Head(rows) |-> RInt(Head(rows)[j])] \o Flat(Tail(rows))

\* torch.mean(scores) over every element, and its negation
Mean(rows) == RMean(Flat(rows))

NegMean(rows) == RNeg(Mean(rows))

----------------------------------------------------------------------------
(* gradient_penalty, lines 17-33 *)

\* the width two rows broadcast to, 0 when they do not broadcast
BroadcastWidth(a, b) ==
    IF a = b THEN a ELSE IF a = 1 THEN b ELSE IF b = 1 THEN a ELSE 0

\* line 22: inputs = alpha * real + (1 - alpha) * fake, alpha one rational
\* the two batches in each other's place
InterpolateSwapped(alpha, real, fake) ==
    [i \in DOMAIN real |->
        [j \in DOMAIN real[i] |->
            RAdd(RMul(alpha[i], RInt(fake[i][j])),
                 RMul(RSub(RInt(1), alpha[i]), RInt(real[i][j])))]]

\* per example, broadcast over the example's elements
Interpolate(alpha, real, fake) ==
    [i \in DOMAIN real |->
        LET w == BroadcastWidth(Len(real[i]), Len(fake[i]))
            r(j) == RInt(real[i][IF Len(real[i]) = 1 THEN 1 ELSE j])
            f(j) == RInt(fake[i][IF Len(fake[i]) = 1 THEN 1 ELSE j])
        IN  [j \in 1..w |-> RAdd(RMul(alpha[i], r(j)),
                                 RMul(RSub(RInt(1), alpha[i]), f(j)))]]

\* line 22 raises when the two batches do not broadcast
CanInterpolate(real, fake) ==
    /\ Len(real) = Len(fake) \/ Len(real) = 1 \/ Len(fake) = 1
    /\ \A i \in DOMAIN real : i \in DOMAIN fake =>
           BroadcastWidth(Len(real[i]), Len(fake[i])) # 0

\* the integer square root of a perfect square
Sqrt(n) == CHOOSE r \in 0..n : r * r = n

\* line 33: gradient.norm(2, dim=1) of one flattened example
Norm2(row) == Sqrt(Sum([j \in DOMAIN row |-> row[j] * row[j]]))

\* the penalty summed over the batch instead of averaged
PenaltySummed(gradient) ==
    RSum([i \in DOMAIN gradient |->
              RInt((Norm2(gradient[i]) - 1) * (Norm2(gradient[i]) - 1))])

\* lines 32-33: ((gradient.norm(2, dim=1) - 1) ** 2).mean()
PenaltyOf(gradient) ==
    RMean([i \in DOMAIN gradient |->
               RInt((Norm2(gradient[i]) - 1) * (Norm2(gradient[i]) - 1))])

\* gradient_penalty(model, real, fake, *nargs) with the alpha that was drawn:
\* whether it returned, its value and graph, what line 25 handed to the model
\* as extra arguments and as inputs
GradientPenalty(s, real, fake, nargs, alpha, grad_enabled) ==
    LET d == s.discriminator
        r == Detach(real)
        f == Detach(fake)
        inputs == Interpolate(alpha, r.v, f.v)
    IN  IF ~CanInterpolate(r.v, f.v)
        THEN [ok |-> FALSE, err |-> "RuntimeError: size mismatch (line 22)",
              value |-> RInt(0), deps |-> {}, nargs |-> nargs, inputs |-> <<>>]
        ELSE IF ~DiscriminatorAccepts(d, inputs, nargs)
        THEN [ok |-> FALSE, err |-> "RuntimeError: shapes cannot be multiplied",
              value |-> RInt(0), deps |-> {}, nargs |-> nargs, inputs |-> inputs]
        ELSE IF ~grad_enabled
        THEN [ok |-> FALSE, err |-> "RuntimeError: does not require grad",
              value |-> RInt(0), deps |-> {}, nargs |-> nargs, inputs |-> inputs]
        ELSE [ok |-> TRUE, err |-> "",
              value |-> PenaltyOf(DiscriminatorInputGradient(d, inputs)),
              deps |-> GraphOf(s, "disc"), nargs |-> nargs, inputs |-> inputs]

----------------------------------------------------------------------------
(* The statements of training_step, validation_step and test_step *)

\* the extra positional arguments of every network call of a step: none in
\* WGANGPTrainer, the batch's y in CWGANGPTrainer
NetArgs(st) == IF st.self.cls = "CWGANGPTrainer" THEN <<Get(st.loc.y)>> ELSE <<>>

Called(st, fn, input, nargs) ==
    [st EXCEPT !.calls = Append(@, [fn |-> fn, input |-> input, nargs |-> nargs])]

\* x, _ = batch (line 194); x, y = batch (line 491)
Unpack(st, in) ==
    [st EXCEPT !.loc.x = Some(Tensor(in.batch[1], {})),
               !.loc.y = IF st.self.cls = "CWGANGPTrainer"
                         THEN Some(in.batch[2]) ELSE None]

\* generator_optimizer, discriminator_optimizer = self.optimizers() (line 195)
Optimizers(st) == [st EXCEPT !.loc.optimizers = Some(<<1, 2>>)]

\* lines 197-200: a fresh latent batch of x.shape[0] rows of latent_channels
DrawLatent(st, in) == [st EXCEPT !.loc.latent = Some(Tensor(in.latent, {}))]

\* the decorator of validation_step and test_step (lines 293, 369)
EnableGrad(st) == [st EXCEPT !.grad_enabled = TRUE]

Tracked(st, net) == IF st.grad_enabled THEN GraphOf(st.self, net) ELSE {}

\* gen_x = self.generator(latent[, y]) (lines 205, 303, 379)
GenX(st) ==
    LET g == st.self.generator
        z == Get(st.loc.latent)
        na == NetArgs(st)
    IN  IF ~GeneratorAccepts(g, z.v, na)
        THEN Raise(Called(st, "generator", "latent", na),
                   "RuntimeError: shapes cannot be multiplied")
        ELSE [Called(st, "generator", "latent", na) EXCEPT
                 !.loc.gen_x = Some(Tensor(GeneratorForward(g, z.v, na),
                                           Tracked(st, "gen")))]

\* forward that also scores what it generated
ForwardScored(st) ==
    LET g == st.self.generator
        z == Get(st.loc.latent)
        na == NetArgs(st)
        c1 == Called(st, "generator", "latent", na)
        c2 == Called(c1, "discriminator", "gen_x", na)
    IN  IF ~GeneratorAccepts(g, z.v, na)
        THEN Raise(c1, "RuntimeError: shapes cannot be multiplied")
        ELSE [c2 EXCEPT !.loc.ret = Some(Tensor(GeneratorForward(g, z.v, na),
                                                 Tracked(st, "gen")))]

\* forward: return self.generator(latent[, y]) (lines 178-179, 607-608)
Forward(st) ==
    LET g == st.self.generator
        z == Get(st.loc.latent)
        na == NetArgs(st)
    IN  IF ~GeneratorAccepts(g, z.v, na)
        THEN Raise(Called(st, "generator", "latent", na),
                   "RuntimeError: shapes cannot be multiplied")
        ELSE [Called(st, "generator", "latent", na) EXCEPT
                 !.loc.ret = Some(Tensor(GeneratorForward(g, z.v, na),
                                         Tracked(st, "gen")))]

\* a discriminator call on tensor t, the result stored in local name
Score(st, name, what, t) ==
    LET d == st.self.discriminator
        na == NetArgs(st)
    IN  IF ~DiscriminatorAccepts(d, t.v, na)
        THEN Raise(Called(st, "discriminator", what, na),
                   "RuntimeError: shapes cannot be multiplied")
        ELSE [Called(st, "discriminator", what, na) EXCEPT
                 !.loc[name] = Some(Tensor(DiscriminatorForward(d, t.v, na),
                                           t.deps \cup Tracked(st, "disc")))]

\* g_loss = -torch.mean(self.discriminator(gen_x[, y])) (lines 206, 304, 380)
GLoss(st) ==
    LET sc == Value(Score(st, "g_loss", "gen_x", Get(st.loc.gen_x)))
    IN  IF sc.err # None THEN sc
        ELSE [sc EXCEPT !.loc.g_loss =
                 Some(Tensor(NegMean(Get(sc.loc.g_loss).v), Get(sc.loc.g_loss).deps))]

\* real_loss = self.discriminator(x[, y]) (lines 216, 306, 382)
RealLoss(st) == Score(st, "real_loss", "x", Get(st.loc.x))

\* the fake batch scored without detach()
FakeLossAttached(st) == Score(st, "fake_loss", "gen_x.detach()", Get(st.loc.gen_x))

\* fake_loss = self.discriminator(gen_x.detach()[, y]) (lines 217, 307, 383)
FakeLoss(st) == Score(st, "fake_loss", "gen_x.detach()", Detach(Get(st.loc.gen_x)))

\* the penalty called without the label
GpTermUnlabelled(st, in) ==
    LET gp == Value(GradientPenalty(st.self, Get(st.loc.x), Get(st.loc.gen_x), <<>>,
                                    in.alpha, st.grad_enabled))
        c1 == Called(st, "gradient_penalty", "x, gen_x", <<>>)
        c2 == Called(c1, "discriminator", "inputs", gp.nargs)
    IN  IF ~gp.ok THEN Raise(c2, gp.err)
        ELSE [c2 EXCEPT !.loc.gp_term = Some(Tensor(gp.value, gp.deps)),
                        !.loc.inputs = Some(gp.inputs)]

\* gp_term = gradient_penalty(self.discriminator, x, gen_x[, y]) (lines 218, 308, 384)
GpTerm(st, in) ==
    LET na == NetArgs(st)
        gp == Value(GradientPenalty(st.self, Get(st.loc.x), Get(st.loc.gen_x), na,
                                    in.alpha, st.grad_enabled))
        c1 == Called(st, "gradient_penalty", "x, gen_x", na)
        c2 == Called(c1, "discriminator", "inputs", gp.nargs)
    IN  IF ~gp.ok THEN Raise(c2, gp.err)
        ELSE [c2 EXCEPT !.loc.gp_term = Some(Tensor(gp.value, gp.deps)),
                        !.loc.inputs = Some(gp.inputs)]

\* the discriminator loss with the penalty added unweighted
DLossUnweighted(real_loss, fake_loss, weight, gp_term) ==
    RAdd(RAdd(NegMean(real_loss), Mean(fake_loss)), gp_term)

\* d_loss = -mean(real_loss) + mean(fake_loss) + weight_gradient_penalty * gp_term
\* (lines 219-220, 309-310, 385-386)
DLossValue(real_loss, fake_loss, weight, gp_term) ==
    RAdd(RAdd(NegMean(real_loss), Mean(fake_loss)), RMul(RInt(weight), gp_term))

DLoss(st) ==
    LET r == Get(st.loc.real_loss)
        f == Get(st.loc.fake_loss)
        g == Get(st.loc.gp_term)
    IN  [st EXCEPT !.loc.d_loss =
            Some(Tensor(DLossValue(r.v, f.v, st.self.weight_gradient_penalty, g.v),
                        r.deps \cup f.deps \cup g.deps))]

\* loss.backward() (lines 207, 221): the loss's tag is added to the .grad of
\* every parameter group of its graph; a loss with no graph raises
Backward(st, name) ==
    LET loss == Get(st.loc[name])
        tag == [loss |-> name, step |-> st.step]
    IN  IF loss.deps = {}
        THEN Raise(st, "RuntimeError: element 0 of tensors does not require grad")
        ELSE [st EXCEPT !.self.grad =
                 [p \in DOMAIN @ |-> IF p \in loss.deps THEN @[p] \cup {tag} ELSE @[p]]]

\* the parameter of a group, replaced
SetParam(s, net, val) ==
    IF net = "gen" THEN [s EXCEPT !.generator.w = val]
    ELSE [s EXCEPT !.discriminator.v = val]

\* optimizer.step() (lines 209, 223): Adam moves the parameters of its group
\* that hold a gradient, to some value of the input's choice
OptimizerStep(st, k, in) ==
    LET o == Get(st.tr.optimizers)[Get(st.loc.optimizers)[k]]
        g == st.self.grad[o.params]
    IN  IF g = {} THEN st
        ELSE [st EXCEPT !.self = SetParam(@, o.params, in.new[o.params]),
                        !.tr.optimizers =
                            Some([Get(@) EXCEPT ![Get(st.loc.optimizers)[k]] =
                                    [@ EXCEPT !.steps = @ + 1, !.applied = g]])]

\* optimizer.zero_grad() (lines 210, 224)
ZeroGrad(st, k) ==
    LET o == Get(st.tr.optimizers)[Get(st.loc.optimizers)[k]]
    IN  [st EXCEPT !.self.grad[o.params] = {}]

\* toggle_optimizer that leaves requires_grad of every parameter as it is
ToggleNothing(st, k) ==
    [st EXCEPT !.self.param_requires_grad_state =
        Some([p \in {"gen", "disc"} |-> st.self.requires_grad[p]])]

\* LightningModule.toggle_optimizer (lines 203, 214): remember requires_grad
\* of the parameters of every optimizer, clear it, and give the parameters of
\* this optimizer theirs back
ToggleOptimizer(st, k) ==
    LET opts == Get(st.tr.optimizers)
        mine == opts[Get(st.loc.optimizers)[k]].params
        held == {opts[i].params : i \in DOMAIN opts}
        saved == [p \in held |-> st.self.requires_grad[p]]
    IN  [st EXCEPT !.self.requires_grad =
                       [p \in DOMAIN @ |-> IF p = mine THEN saved[p]
                                           ELSE IF p \in held THEN FALSE ELSE @[p]],
                   !.self.param_requires_grad_state = Some(saved)]

\* LightningModule.untoggle_optimizer (lines 211, 225): give the parameters
\* of the other optimizers their requires_grad back
UntoggleOptimizer(st, k) ==
    LET opts == Get(st.tr.optimizers)
        mine == opts[Get(st.loc.optimizers)[k]].params
        saved == IF st.self.param_requires_grad_state = None
                 THEN [p \in {} |-> TRUE]
                 ELSE Get(st.self.param_requires_grad_state)
    IN  [st EXCEPT !.self.requires_grad =
                       [p \in DOMAIN @ |-> IF p # mine /\ p \in DOMAIN saved
                                           THEN saved[p] ELSE @[p]],
                   !.self.param_requires_grad_state = None]

\* a method of an accumulator is called, on the input named
MetricCalled(st, acc, method, input) ==
    [st EXCEPT !.metric_calls =
        Append(@, [acc |-> acc, method |-> method, input |-> input])]

\* MeanMetric.update(value)
MeanUpdate(m, value) ==
    [m EXCEPT !.mean_value = RAdd(@, value), !.weight = @ + 1]

\* MeanMetric.compute(): 0/0 is nan
MeanCompute(m) ==
    IF m.weight = 0 THEN NaN ELSE RDiv(m.mean_value, RInt(m.weight))

\* self.log("train_g_loss", self.train_g_loss(g_loss), prog_bar=True,
\* logger=False, ...) (lines 227-238): the accumulator's forward() takes the
\* value as an update and returns it
LogStep(st, phase, name) ==
    LET value == Get(st.loc[name]).v
    IN  [MetricCalled(st, AccName(phase, name), "forward", name) EXCEPT
                   !.self.acc[AccName(phase, name)] = MeanUpdate(@, value),
                   !.tr.progress_bar_metrics = Put(@, AccName(phase, name), value)]

\* self.val_g_loss.update(g_loss) (lines 312-313, 388-389)
UpdateLoss(st, phase, name) ==
    [MetricCalled(st, AccName(phase, name), "update", name) EXCEPT
        !.self.acc[AccName(phase, name)] = MeanUpdate(@, Get(st.loc[name]).v)]

\* the two updates of the 'fid' accumulator with the flags exchanged
UpdateFidSwapped(st, phase) ==
    IF "fid" \notin st.self.metrics THEN st
    ELSE [MetricCalled(MetricCalled(st, AccName(phase, "fid"), "update", "x, real=False"),
                       AccName(phase, "fid"), "update", "gen_x, real=True") EXCEPT
             !.self.acc[AccName(phase, "fid")] =
                 [@ EXCEPT !.real = @ + 1, !.fake = @ + 1]]

\* lines 240-242, 315-317, 391-393
UpdateFid(st, phase) ==
    IF "fid" \notin st.self.metrics THEN st
    ELSE [MetricCalled(MetricCalled(st, AccName(phase, "fid"), "update", "x, real=True"),
                       AccName(phase, "fid"), "update", "gen_x, real=False") EXCEPT
             !.self.acc[AccName(phase, "fid")] =
                 [@ EXCEPT !.real = @ + 1, !.fake = @ + 1]]

\* lines 244-245, 319-320, 395-396
UpdateIs(st, phase) ==
    IF "is" \notin st.self.metrics THEN st
    ELSE [MetricCalled(st, AccName(phase, "is"), "update", "gen_x") EXCEPT
             !.self.acc[AccName(phase, "is")] = [@ EXCEPT !.n = @ + 1]]

----------------------------------------------------------------------------
(* The statements of the epoch-end hooks *)

Active(s, metric) == metric \in LossNames \/ metric \in s.metrics

\* the accumulator's compute()
Compute(m) ==
    IF m.kind = "mean" THEN MeanCompute(m)
    ELSE IF m.kind = "fid" THEN <<m.real, m.fake>>
    ELSE <<m.n, 1>>

\* the accumulator's reset()
Reset(m) ==
    IF m.kind = "mean" THEN [m EXCEPT !.mean_value = RInt(0), !.weight = 0]
    ELSE IF m.kind = "fid" THEN [m EXCEPT !.real = 0, !.fake = 0]
    ELSE [m EXCEPT !.n = 0]

\* self.log("train_g_loss", self.train_g_loss.compute(), ..., logger=True)
\* (lines 249-275, 325-351, 401-427)
ComputeAndLog(st, phase, metric) ==
    IF ~Active(st.self, metric) THEN st
    ELSE [MetricCalled(st, AccName(phase, metric), "compute", "") EXCEPT
             !.tr.logged_metrics =
                 Put(@, AccName(phase, metric), Compute(st.self.acc[AccName(phase, metric)]))]

\* lines 277-282, 353-358, 429-434: one line of the logged metrics whose key
\* starts with the phase's prefix
PrintSummary(st, phase) ==
    LET lm == st.tr.logged_metrics
    IN  [st EXCEPT !.tr.stdout =
            Some([phase |-> phase,
                  items |-> {<<k, lm[k]>> : k \in {n \in DOMAIN lm : n[1] = phase}}])]

\* a reset that clears the metric's accumulator of every phase
ResetMetricEveryPhase(st, phase, metric) ==
    IF ~Active(st.self, metric) THEN st
    ELSE [MetricCalled(st, AccName(phase, metric), "reset", "") EXCEPT
             !.self.acc = [n \in DOMAIN @ |->
                              IF n[2] = metric THEN Reset(@[n]) ELSE @[n]]]

\* lines 284-291, 360-367, 436-443
ResetMetric(st, phase, metric) ==
    IF ~Active(st.self, metric) THEN st
    ELSE [MetricCalled(st, AccName(phase, metric), "reset", "") EXCEPT
             !.self.acc[AccName(phase, metric)] = Reset(@)]

----------------------------------------------------------------------------
(* The hooks as statement lists, and their execution *)

\* training_step that never closes the discriminator optimizer's scope
TrainingStepUnclosed ==
    <<"unpack", "optimizers", "latent",
      "toggle_g", "gen_x", "g_loss", "g_backward", "g_step", "g_zero_grad",
      "untoggle_g",
      "toggle_d", "real_loss", "fake_loss", "gp_term", "d_loss", "d_backward",
      "d_step", "d_zero_grad",
      "log_g", "log_d", "update_fid", "update_is">>

\* training_step generating gen_x again for the discriminator phase
TrainingStepRegenerating ==
    <<"unpack", "optimizers", "latent",
      "toggle_g", "gen_x", "g_loss", "g_backward", "g_step", "g_zero_grad",
      "untoggle_g",
      "toggle_d", "gen_x", "real_loss", "fake_loss", "gp_term", "d_loss",
      "d_backward", "d_step", "d_zero_grad", "untoggle_d",
      "log_g", "log_d", "update_fid", "update_is">>

\* training_step with the discriminator phase started before the generator
\* phase has stepped
TrainingStepInterleaved ==
    <<"unpack", "optimizers", "latent",
      "toggle_g", "gen_x", "g_loss", "g_backward",
      "toggle_d", "real_loss",
      "g_step", "g_zero_grad", "untoggle_g",
      "fake_loss", "gp_term", "d_loss", "d_backward",
      "d_step", "d_zero_grad", "untoggle_d",
      "log_g", "log_d", "update_fid", "update_is">>

\* training_step, lines 192-246 (WGANGPTrainer) and 489-543 (CWGANGPTrainer)
TrainingStepProgram ==
    <<"unpack", "optimizers", "latent",
      "toggle_g", "gen_x", "g_loss", "g_backward", "g_step", "g_zero_grad",
      "untoggle_g",
      "toggle_d", "real_loss", "fake_loss", "gp_term", "d_loss", "d_backward",
      "d_step", "d_zero_grad", "untoggle_d",
      "log_g", "log_d", "update_fid", "update_is">>

\* an evaluation step that backpropagates the discriminator loss
EvalStepWithBackward ==
    <<"enable_grad", "unpack", "latent", "gen_x", "g_loss",
      "real_loss", "fake_loss", "gp_term", "d_loss", "d_backward",
      "update_g", "update_d", "update_fid", "update_is">>

\* validation_step and test_step, lines 293-322, 369-398, 545-605
EvalStepProgram ==
    <<"enable_grad", "unpack", "latent", "gen_x", "g_loss",
      "real_loss", "fake_loss", "gp_term", "d_loss",
      "update_g", "update_d", "update_fid", "update_is">>

\* an epoch-end hook that resets before it prints
EpochEndResetFirst ==
    <<"compute_g_loss", "compute_d_loss", "compute_fid", "compute_is",
      "reset_g_loss", "reset_d_loss", "reset_fid", "reset_is",
      "print">>

\* forward, on the arguments the caller gave (lines 178-179, 607-608)
ForwardProgram == <<"forward">>

\* predict_step, lines 181-190 and 610-619
PredictStepProgram == <<"unpack", "latent", "forward">>

\* on_train_epoch_end, on_validation_epoch_end, on_test_epoch_end,
\* lines 248-291, 324-367, 400-443
EpochEndProgram ==
    <<"compute_g_loss", "compute_d_loss", "compute_fid", "compute_is",
      "print",
      "reset_g_loss", "reset_d_loss", "reset_fid", "reset_is">>

\* one statement, on a frame that has noted it as started
Exec(op, st, in, phase) ==
        CASE op = "init_fields" -> InitFields(st, in)
          [] op = "init_latent" -> InitLatent(st, in)
          [] op = "init_rest" -> InitRest(st, in)
          [] op = "init_mean_metrics" -> InitMeanMetrics(st)
          [] op = "init_fid" -> InitFid(st)
          [] op = "init_is" -> InitIs(st)
          [] op = "enable_grad" -> EnableGrad(st)
          [] op = "unpack" -> Unpack(st, in)
          [] op = "optimizers" -> Optimizers(st)
          [] op = "latent" -> DrawLatent(st, in)
          [] op = "toggle_g" -> ToggleOptimizer(st, 1)
          [] op = "gen_x" -> GenX(st)
          [] op = "forward" -> Forward(st)
          [] op = "g_loss" -> GLoss(st)
          [] op = "g_backward" -> Backward(st, "g_loss")
          [] op = "g_step" -> OptimizerStep(st, 1, in)
          [] op = "g_zero_grad" -> ZeroGrad(st, 1)
          [] op = "untoggle_g" -> UntoggleOptimizer(st, 1)
          [] op = "toggle_d" -> ToggleOptimizer(st, 2)
          [] op = "real_loss" -> RealLoss(st)
          [] op = "fake_loss" -> FakeLoss(st)
          [] op = "gp_term" -> GpTerm(st, in)
          [] op = "d_loss" -> DLoss(st)
          [] op = "d_backward" -> Backward(st, "d_loss")
          [] op = "d_step" -> OptimizerStep(st, 2, in)
          [] op = "d_zero_grad" -> ZeroGrad(st, 2)
          [] op = "untoggle_d" -> UntoggleOptimizer(st, 2)
          [] op = "log_g" -> LogStep(st, phase, "g_loss")
          [] op = "log_d" -> LogStep(st, phase, "d_loss")
          [] op = "update_g" -> UpdateLoss(st, phase, "g_loss")
          [] op = "update_d" -> UpdateLoss(st, phase, "d_loss")
          [] op = "update_fid" -> UpdateFid(st, phase)
          [] op = "update_is" -> UpdateIs(st, phase)
          [] op = "compute_g_loss" -> ComputeAndLog(st, phase, "g_loss")
          [] op = "compute_d_loss" -> ComputeAndLog(st, phase, "d_loss")
          [] op = "compute_fid" -> ComputeAndLog(st, phase, "fid")
          [] op = "compute_is" -> ComputeAndLog(st, phase, "is")
          [] op = "print" -> PrintSummary(st, phase)
          [] op = "reset_g_loss" -> ResetMetric(st, phase, "g_loss")
          [] op = "reset_d_loss" -> ResetMetric(st, phase, "d_loss")
          [] op = "reset_fid" -> ResetMetric(st, phase, "fid")
          [] op = "reset_is" -> ResetMetric(st, phase, "is")

Do(op, st, in, phase) ==
    CHOOSE r \in {Exec(op, s, in, phase) : s \in {[st EXCEPT !.ops = Append(@, op)]}} : TRUE

\* the statements in order, up to the first that raises
RECURSIVE Run(_, _, _, _)
Run(prog, st, in, phase) ==
    CHOOSE r \in {IF prog = <<>> \/ s.err # None THEN s
                  ELSE Run(Tail(prog), Do(Head(prog), s, in, phase), in, phase)
                  : s \in {st}} : TRUE

\* configure_optimizers with the two learning rates exchanged
ConfigureOptimizersSwapped(s) ==
    <<[params |-> "gen", lr |-> s.discriminator_lr, steps |-> 0, applied |-> {}],
      [params |-> "disc", lr |-> s.generator_lr, steps |-> 0, applied |-> {}]>>

\* configure_optimizers, lines 445-453: one Adam per network
ConfigureOptimizers(s) ==
    <<[params |-> "gen", lr |-> s.generator_lr, steps |-> 0, applied |-> {}],
      [params |-> "disc", lr |-> s.discriminator_lr, steps |-> 0, applied |-> {}]>>

----------------------------------------------------------------------------
(* What the callers and the environment supply *)

Generators == {[in_channels |-> c, in_features |-> 1, w |-> 1] : c \in {None, Some(1)}}

\* the constructor arguments of the lifecycle runs: both classes, with and
\* without the optional metrics
RunArgs ==
    [cls : {"WGANGPTrainer", "CWGANGPTrainer"},
     generator : {[in_channels |-> Some(1), in_features |-> 1, w |-> 1]},
     discriminator : {[v |-> 2, kind |-> "linear"]},
     generator_lr : {1}, discriminator_lr : {2},
     weight_gradient_penalty : {1},
     latent_channels : {None},
     metrics : {{}, {"fid", "is"}},
     metric_extractor : {Some([in_channels |-> Some(4)])},
     metric_classifier : {Some("classifier")},
     metric_num_features : {None}]

\* the constructor arguments of the runs that look at the optional metrics:
\* every choice of them
MetricArgs ==
    [cls : {"WGANGPTrainer", "CWGANGPTrainer"},
     generator : {[in_channels |-> Some(1), in_features |-> 1, w |-> 1]},
     discriminator : {[v |-> 2, kind |-> "linear"]},
     generator_lr : {1}, discriminator_lr : {2},
     weight_gradient_penalty : {1},
     latent_channels : {None},
     metrics : SUBSET {"fid", "is"},
     metric_extractor : {Some([in_channels |-> Some(4)])},
     metric_classifier : {Some("classifier")},
     metric_num_features : {None}]

\* the constructor arguments of the runs that look at what one step computes:
\* both classes, several penalty weights and discriminators
StepArgs ==
    [cls : {"WGANGPTrainer", "CWGANGPTrainer"},
     generator : {[in_channels |-> Some(1), in_features |-> 1, w |-> 2]},
     discriminator : {[v |-> -3, kind |-> "linear"], [v |-> 2, kind |-> "linear"]},
     generator_lr : {1}, discriminator_lr : {1},
     weight_gradient_penalty : {0, 3},
     latent_channels : {None},
     metrics : {{}},
     metric_extractor : {None},
     metric_classifier : {None},
     metric_num_features : {None}]

\* every way to call the constructor
CtorArgs ==
    [cls : {"WGANGPTrainer", "CWGANGPTrainer"},
     generator : Generators,
     discriminator : {[v |-> 2, kind |-> "linear"]},
     generator_lr : {1}, discriminator_lr : {1},
     weight_gradient_penalty : {1},
     latent_channels : {None, Some(1), Some(2)},
     metrics : SUBSET {"fid", "is"},
     metric_extractor : {None, Some([in_channels |-> None]), Some([in_channels |-> Some(4)])},
     metric_classifier : {None, Some("classifier")},
     metric_num_features : {None, Some(8)}]

\* the batches the loaders serve (the last has samples of width 2), the
\* values torch.normal and torch.rand draw, the values Adam moves a
\* parameter to
RunEnv ==
    [batches |-> {<<(<<(<<1>>)>>), <<0>>>>,
                  <<(<<(<<0>>), (<<3>>)>>), <<1, 0>>>>},
     bad_batches |-> {<<(<<(<<1, 1>>)>>), <<0>>>>},
     latent_vals |-> {1},
     alpha_vals |-> {<<1, 2>>},
     param_vals |-> {1, 2}]

\* more batches, latent draws and interpolation weights, for StepArgs
StepEnv ==
    [batches |-> {<<(<<(<<-2>>)>>), <<1>>>>,
                  <<(<<(<<0>>), (<<3>>)>>), <<1, 0>>>>},
     bad_batches |-> {<<(<<(<<1, 1>>)>>), <<0>>>>},
     latent_vals |-> {0, 1},
     alpha_vals |-> {<<0, 1>>, <<1, 2>>},
     param_vals |-> {-3, 2}]

NoLast ==
    [hook |-> "", phase |-> "", ops |-> <<>>, calls |-> <<>>,
     metric_calls |-> <<>>, loc |-> NoLocals,
     err |-> None, since |-> <<>>, run |-> <<>>]

NoHist ==
    [since |-> [p \in Phases |-> <<>>], run |-> [p \in Phases |-> <<>>]]

InitWith(argset, e, good) ==
    /\ args \in argset
    /\ self = NoSelf
    /\ trainer = NoTrainer
    /\ env = e
    /\ last = NoLast
    /\ hist = NoHist
    /\ fuel = [good |-> good, bad |-> MaxBad, served |-> 0]

Init == InitWith(RunArgs, RunEnv, MaxSteps)

InitCtor == InitWith(CtorArgs, RunEnv, MaxSteps)

InitStep == InitWith(StepArgs, StepEnv, MaxWideSteps)

InitMetrics == InitWith(MetricArgs, RunEnv, MaxSteps)

----------------------------------------------------------------------------
(* Actions: one per call of a hook *)

\* the batches a loader can serve next, and what is left after one of them
Servable ==
    (IF fuel.good > 0 THEN env.batches ELSE {})
    \cup (IF fuel.bad > 0 THEN env.bad_batches ELSE {})

Served(batch) ==
    IF batch \in env.bad_batches
    THEN [fuel EXCEPT !.bad = @ - 1, !.served = @ + 1]
    ELSE [fuel EXCEPT !.good = @ - 1, !.served = @ + 1]

\* the number of the step that takes the next batch
Serial == fuel.served + 1

\* WGANGPTrainer(...) / CWGANGPTrainer(...)
Construct ==
    /\ self.state = "none"
    /\ \E st \in {Run(InitProgram, Frame(self, trainer), args, "")} :
           /\ self' = [st.self EXCEPT !.state = IF st.err = None THEN "ok" ELSE "failed"]
           /\ last' = [NoLast EXCEPT !.hook = "__init__", !.ops = st.ops, !.err = st.err]
    /\ UNCHANGED <<args, trainer, env, hist, fuel>>

\* fit(), lines 145-163: a new pl.Trainer, which asks for the optimizers and
\* starts with the sanity validation (num_sanity_val_steps) or without it
Fit ==
    /\ self.state = "ok"
    /\ trainer.mode = "idle"
    /\ Servable # {}
    /\ \E sanity \in BOOLEAN :
          trainer' = [NoTrainer EXCEPT !.mode = "fit",
                                       !.stage = IF sanity THEN "sanity" ELSE "train",
                                       !.optimizers = Some(ConfigureOptimizers(self))]
    /\ hist' = [hist EXCEPT !.run = NoHist.run]
    /\ last' = NoLast
    /\ UNCHANGED <<args, self, env, fuel>>

\* test(), lines 165-176: a new pl.Trainer, no optimizers
Test ==
    /\ self.state = "ok"
    /\ trainer.mode = "idle"
    /\ Servable # {}
    /\ trainer' = [NoTrainer EXCEPT !.mode = "test", !.stage = "test"]
    /\ hist' = [hist EXCEPT !.run = NoHist.run]
    /\ last' = NoLast
    /\ UNCHANGED <<args, self, env, fuel>>

Latents(n, width) == [1..n -> [1..width -> env.latent_vals]]

Alphas(n) == [1..n -> env.alpha_vals]

\* Adam, given a gradient, moves a parameter: to which value is torch's
\* arithmetic, here any other value the environment allows
AdamMoves(val) == env.param_vals \ {val}

\* the outcomes of the optimizer steps of a hook; only training_step has any
NewParams(hook) ==
    IF hook = "training_step"
    THEN [gen : AdamMoves(self.generator.w), disc : AdamMoves(self.discriminator.v)]
    ELSE {[gen |-> self.generator.w, disc |-> self.discriminator.v]}

\* the losses a completed step fed to its phase's accumulators
Fed(st) == <<Get(st.loc.g_loss).v, Get(st.loc.d_loss).v>>

\* one call of a step hook by the loop: the hook's effects, then the loop's
\* bookkeeping; an exception ends the run of fit() or test()
StepCall(hook, phase, prog, grad_mode, stage) ==
    /\ \E batch \in Servable :
       \E latent \in Latents(Len(batch[1]), Get(self.latent_channels)) :
       \E alpha \in Alphas(Len(batch[1])) :
       \E new \in NewParams(hook) :
       \E st \in {Run(prog,
                       [Frame(self, trainer) EXCEPT !.grad_enabled = grad_mode,
                                                    !.step = Serial],
                       [batch |-> batch, latent |-> latent, alpha |-> alpha, new |-> new],
                       phase)} :
          LET ok == st.err = None
          IN  /\ self' = st.self
              /\ trainer' = IF ok
                            THEN [st.tr EXCEPT !.stage = stage, !.steps = @ + 1]
                            ELSE [st.tr EXCEPT !.mode = "idle", !.stage = "", !.steps = 0]
              /\ last' = [NoLast EXCEPT !.hook = hook, !.phase = phase, !.ops = st.ops,
                                        !.calls = st.calls, !.loc = st.loc, !.err = st.err,
                                        !.metric_calls = st.metric_calls]
              /\ hist' = IF ok
                         THEN [hist EXCEPT !.since[phase] = Append(@, Fed(st)),
                                           !.run[phase] = Append(@, Fed(st))]
                         ELSE hist
              /\ fuel' = Served(batch)
    /\ UNCHANGED <<args, env>>

\* the training loop calls training_step with gradients enabled
TrainingStep ==
    /\ trainer.mode = "fit" /\ trainer.stage = "train"
    /\ StepCall("training_step", "train", TrainingStepProgram, TRUE, "train")

\* the validation loop calls validation_step under torch.no_grad(): in the
\* sanity check (at most 2 batches), or after the epoch's training batches
ValidationStep ==
    /\ trainer.mode = "fit"
    /\ \/ trainer.stage = "sanity" /\ trainer.steps < 2
       \/ trainer.stage = "val"
    /\ StepCall("validation_step", "val", EvalStepProgram, FALSE, trainer.stage)

\* the training batches of the epoch are over and validation starts
BeginValidation ==
    /\ trainer.mode = "fit" /\ trainer.stage = "train" /\ trainer.steps > 0
    /\ Servable # {}
    /\ trainer' = [trainer EXCEPT !.stage = "val", !.steps = 0]
    /\ last' = NoLast
    /\ UNCHANGED <<args, self, env, hist, fuel>>

TestStep ==
    /\ trainer.mode = "test" /\ trainer.stage = "test"
    /\ StepCall("test_step", "test", EvalStepProgram, FALSE, "test")

\* one call of an epoch-end hook; the loop goes on to stage (or returns)
EpochEndCall(hook, phase, mode, stage) ==
    \E st \in {Run(EpochEndProgram, Frame(self, trainer), <<>>, phase)} :
        /\ self' = st.self
        /\ trainer' = [st.tr EXCEPT !.mode = mode, !.stage = stage, !.steps = 0]
        /\ last' = [NoLast EXCEPT !.hook = hook, !.phase = phase, !.ops = st.ops,
                                  !.metric_calls = st.metric_calls,
                                  !.since = hist.since[phase], !.run = hist.run[phase]]
        /\ hist' = [hist EXCEPT !.since[phase] = <<>>, !.run[phase] = <<>>]
        /\ UNCHANGED <<args, env, fuel>>

\* after the validation batches; the training epoch's own hook follows
OnValidationEpochEnd ==
    /\ trainer.mode = "fit" /\ trainer.stage \in {"sanity", "val"} /\ trainer.steps > 0
    /\ EpochEndCall("on_validation_epoch_end", "val", "fit",
                    IF trainer.stage = "sanity" THEN "train" ELSE "train_end")

\* after the epoch's training batches and its validation, if any; then the
\* next epoch, or fit() returns
OnTrainEpochEnd ==
    /\ trainer.mode = "fit"
    /\ \/ trainer.stage = "train" /\ trainer.steps > 0
       \/ trainer.stage = "train_end"
    /\ \E more \in {m \in BOOLEAN : m => Servable # {}} :
          EpochEndCall("on_train_epoch_end", "train",
                       IF more THEN "fit" ELSE "idle", IF more THEN "train" ELSE "")

\* after the test batches; test() returns
OnTestEpochEnd ==
    /\ trainer.mode = "test" /\ trainer.steps > 0
    /\ EpochEndCall("on_test_epoch_end", "test", "idle", "")

\* the labels a caller can hand to forward with n latent rows
Labels(n) == {b[2] : b \in {c \in env.batches : Len(c[2]) = n}}

\* one call of an inference operation; nothing of the loops is running
InferenceCall(hook, prog, frame, in) ==
    \E st \in {Run(prog, frame, in, "")} :
        /\ self' = st.self
        /\ trainer' = st.tr
        /\ last' = [NoLast EXCEPT !.hook = hook, !.ops = st.ops, !.calls = st.calls,
                                  !.metric_calls = st.metric_calls, !.loc = st.loc,
                                  !.err = st.err]
        /\ UNCHANGED <<args, env, hist, fuel>>

\* trainer(latent) / trainer(latent, y), called by the user
ForwardCall ==
    /\ self.state = "ok" /\ trainer.mode = "idle"
    /\ \E n \in 1..2 :
       \E latent \in Latents(n, Get(self.latent_channels)) :
       \E y \in Labels(n) :
          InferenceCall("forward", ForwardProgram,
                        [Frame(self, trainer) EXCEPT
                            !.loc.latent = Some(Tensor(latent, {})),
                            !.loc.y = IF self.cls = "CWGANGPTrainer" THEN Some(y) ELSE None],
                        <<>>)

\* predict_step on a batch of a loader, well-formed or not
PredictStep ==
    /\ self.state = "ok" /\ trainer.mode = "idle"
    /\ \E batch \in env.batches \cup env.bad_batches :
       \E latent \in Latents(Len(batch[1]), Get(self.latent_channels)) :
          InferenceCall("predict_step", PredictStepProgram, Frame(self, trainer),
                        [batch |-> batch, latent |-> latent])

\* a loader without a length that yields no batch: the loop runs no step and
\* calls the phase's epoch-end hook all the same
OnValidationEpochEndUnfed ==
    /\ trainer.mode = "fit" /\ trainer.stage \in {"sanity", "val"} /\ trainer.steps = 0
    /\ EpochEndCall("on_validation_epoch_end", "val", "fit",
                    IF trainer.stage = "sanity" THEN "train" ELSE "train_end")

OnTrainEpochEndUnfed ==
    /\ trainer.mode = "fit" /\ trainer.stage = "train" /\ trainer.steps = 0
    /\ EpochEndCall("on_train_epoch_end", "train", "idle", "")

OnTestEpochEndUnfed ==
    /\ trainer.mode = "test" /\ trainer.steps = 0
    /\ EpochEndCall("on_test_epoch_end", "test", "idle", "")

Next ==
    \/ Construct
    \/ Fit
    \/ Test
    \/ TrainingStep
    \/ BeginValidation
    \/ ValidationStep
    \/ OnValidationEpochEnd
    \/ OnTrainEpochEnd
    \/ TestStep
    \/ OnTestEpochEnd

Spec == Init /\ [][Next]_vars

\* the constructor alone, over every way to call it
SpecCtor == InitCtor /\ [][Construct]_vars

\* the lifecycle over a wider choice of values
SpecStep == InitStep /\ [][Next]_vars

\* the lifecycle under every choice of optional metrics
SpecMetrics == InitMetrics /\ [][Next]_vars

\* the lifecycle with the inference operations called between the runs
NextInfer ==
    \/ Next
    \/ ForwardCall
    \/ PredictStep

SpecInfer == Init /\ [][NextInfer]_vars

\* the lifecycle with loaders that may yield nothing
NextUnfed ==
    \/ Next
    \/ OnValidationEpochEndUnfed
    \/ OnTrainEpochEndUnfed
    \/ OnTestEpochEndUnfed

SpecUnfed == Init /\ [][NextUnfed]_vars

\* runs with a discriminator that takes samples of any width, so that a
\* batch whose samples are wider than the generator's reaches gradient_penalty
ShapeArgs ==
    {[a EXCEPT !.discriminator = [v |-> 2, kind |-> "scaling"]] :
        a \in {r \in RunArgs : r.metrics = {}}}

\* the loader's other batch has samples of four elements, the generator's
\* samples have one
ShapeEnv ==
    [RunEnv EXCEPT !.bad_batches = {<<(<<(<<1, 1, 0, 2>>)>>), <<0>>>>}]

InitShapes == InitWith(ShapeArgs, ShapeEnv, MaxSteps)

SpecShapes == InitShapes /\ [][Next]_vars

\* gradient_penalty on its own (lines 17-33), called with a discriminator that
\* is the identity scaled by k, on a real and a fake batch of one shape and
\* with the alpha that torch.rand drew
Scales == {-2, 1, 3}

ExampleRows(m) == IF m = 1 THEN {<<0>>, <<1>>}
                           ELSE {<<0, 1, 0, 1>>, <<1, 1, 0, 2>>}

ExampleSizes == {1, 4}

PenaltyAlphas == {RInt(0), Rat(1, 2), RInt(1)}

PenaltyArgs ==
    UNION {[k : Scales,
            real : [1..n -> ExampleRows(m)],
            fake : [1..n -> ExampleRows(m)],
            alpha : [1..n -> PenaltyAlphas]] :
           n \in 1..MaxBatch, m \in ExampleSizes}

InitPenalty == InitWith(PenaltyArgs, RunEnv, 0)

ScalingDiscriminator(k) ==
    [NoSelf EXCEPT !.discriminator = [v |-> k, kind |-> "scaling"]]

CallGradientPenalty ==
    /\ last.hook = ""
    /\ last' = [NoLast EXCEPT
                   !.hook = "gradient_penalty",
                   !.loc.ret = Some(GradientPenalty(ScalingDiscriminator(args.k),
                                                    Tensor(args.real, {}),
                                                    Tensor(args.fake, {"gen"}),
                                                    <<>>, args.alpha, TRUE))]
    /\ UNCHANGED <<args, self, trainer, env, hist, fuel>>

SpecPenalty == InitPenalty /\ [][CallGradientPenalty]_vars

----------------------------------------------------------------------------
(* Properties *)

StepHooks == {"training_step", "validation_step", "test_step"}

EpochEndHooks ==
    {"on_train_epoch_end", "on_validation_epoch_end", "on_test_epoch_end"}

\* the statements of the generator phase and of the discriminator phase
GPhaseOps ==
    {"toggle_g", "gen_x", "g_loss", "g_backward", "g_step", "g_zero_grad",
     "untoggle_g"}

DPhaseOps ==
    {"toggle_d", "real_loss", "fake_loss", "gp_term", "d_loss", "d_backward",
     "d_step", "d_zero_grad", "untoggle_d"}

\* the positions of the statements of a set in a trace of statements
At(ops, set) == {i \in DOMAIN ops : ops[i] \in set}

\* every position of a comes before every position of b
Before(a, b) == \A i \in a : \A j \in b : i < j

Once(ops, set) == \A o \in set : Cardinality(At(ops, {o})) = 1

\* a step hook was the last call and it returned
Completed(hook) == last.hook = hook /\ last.err = None

\* C1: in every training_step, of either class, whether it returns or
\* raises, every statement of the generator phase that ran (backward of the
\* generator loss, the generator optimizer's step and zero_grad among them)
\* ran before every statement of the discriminator phase; the discriminator
\* phase starts only after the generator phase has run in full; no statement
\* of either phase runs twice, and a step that returns ran every statement of
\* both phases exactly once.
PhaseOrder ==
    last.hook = "training_step" =>
        LET g == At(last.ops, GPhaseOps)
            d == At(last.ops, DPhaseOps)
        IN  /\ Before(g, d)
            /\ d # {} => Once(last.ops, GPhaseOps)
            /\ \A o \in GPhaseOps \cup DPhaseOps : Cardinality(At(last.ops, {o})) <= 1
            /\ last.err = None => Once(last.ops, GPhaseOps \cup DPhaseOps)

\* a training_step of each class has returned, and another has raised in
\* its discriminator phase
PhaseOrderWitness ==
    /\ Completed("training_step")
    /\ "d_step" \in Range(last.ops)
    /\ self.cls = "CWGANGPTrainer"
    /\ fuel.served > 1

\* a call of a step hook: each takes one batch from its loader
StepTaken(hook) == fuel' # fuel /\ last'.hook = hook

\* C2: a training_step that ends before the discriminator optimizer's step
\* (the generator phase has run, g_loss has flowed through the
\* discriminator) leaves the discriminator's parameter and the discriminator
\* optimizer as they were; in a training_step that reaches that step, the
\* discriminator optimizer steps once and the gradient it applies is the
\* contribution of this step's d_loss alone: nothing of g_loss, nothing of
\* an earlier step; and no gradient is left on the discriminator afterwards.
GradientIsolation ==
    [][StepTaken("training_step") =>
        LET was == Get(trainer.optimizers)[2]
            now == Get(trainer'.optimizers)[2]
        IN  /\ now.params = "disc"
            /\ "d_step" \notin Range(last'.ops) =>
                   /\ self'.discriminator = self.discriminator
                   /\ now = was
            /\ "d_step" \in Range(last'.ops) =>
                   /\ now.steps = was.steps + 1
                   /\ now.applied = {[loss |-> "d_loss", step |-> fuel'.served]}
            /\ last'.err = None => self'.grad.disc = {}]_vars

\* the second training_step of a fit() has returned, both optimizers having
\* stepped twice
GradientIsolationWitness ==
    /\ Completed("training_step")
    /\ trainer.optimizers # None
    /\ Get(trainer.optimizers)[1].steps = 2
    /\ Get(trainer.optimizers)[2].steps = 2

\* the label of example i in a step: y for CWGANGPTrainer, nothing otherwise
StepLabel(loc, i) == IF self.cls = "CWGANGPTrainer" THEN Get(loc.y)[i] ELSE 0

\* the scores of a discriminator of weight v on rows of one element
ScoresOf(v, rows, loc) ==
    [i \in DOMAIN rows |-> RInt(v * rows[i][1] + StepLabel(loc, i))]

\* C3: in every training_step, validation_step and test_step that returns,
\* of either class, for every batch and penalty weight, with D the
\* discriminator as it is when the step starts: gen_x is the generator's
\* output on the latent batch, g_loss = -mean(D(gen_x)), d_loss =
\* -mean(D(x)) + mean(D(gen_x)) + weight_gradient_penalty * gp_term, gp_term
\* being the mean over the examples of (|dD/dinput| - 1)^2; and these two
\* values are what the step adds to the phase's two loss accumulators.
LossFormulas ==
    [][(\E h \in StepHooks : StepTaken(h)) /\ last'.err = None =>
        LET loc == last'.loc
            v == self.discriminator.v
            x == Get(loc.x).v
            z == Get(loc.latent).v
            gen_x == Get(loc.gen_x).v
            g_loss == RNeg(RMean(ScoresOf(v, gen_x, loc)))
            gp_term == RMean([i \in DOMAIN x |-> RInt((Abs(v) - 1) * (Abs(v) - 1))])
            d_loss == RAdd(RAdd(RNeg(RMean(ScoresOf(v, x, loc))),
                                RMean(ScoresOf(v, gen_x, loc))),
                           RMul(RInt(self.weight_gradient_penalty), gp_term))
            g_acc == AccName(last'.phase, "g_loss")
            d_acc == AccName(last'.phase, "d_loss")
        IN  /\ gen_x = [i \in DOMAIN z |->
                            <<self.generator.w * z[i][1] + StepLabel(loc, i)>>]
            /\ Get(loc.g_loss).v = g_loss
            /\ Get(loc.d_loss).v = d_loss
            /\ self'.acc[g_acc].weight = self.acc[g_acc].weight + 1
            /\ self'.acc[g_acc].mean_value = RAdd(self.acc[g_acc].mean_value, g_loss)
            /\ self'.acc[d_acc].weight = self.acc[d_acc].weight + 1
            /\ self'.acc[d_acc].mean_value = RAdd(self.acc[d_acc].mean_value, d_loss)]_vars

\* a training_step of CWGANGPTrainer has returned, on a batch of two
\* examples, with penalty weight 3 and a penalty that is not zero
LossFormulasWitness ==
    /\ Completed("training_step")
    /\ self.cls = "CWGANGPTrainer"
    /\ self.weight_gradient_penalty = 3
    /\ Len(Get(last.loc.x).v) = 2
    /\ Get(last.loc.gp_term).v = RInt(4)

ComputeOps == {"compute_g_loss", "compute_d_loss", "compute_fid", "compute_is"}

ResetOps == {"reset_g_loss", "reset_d_loss", "reset_fid", "reset_is"}

\* the mean of column k of the losses the steps fed
MeanOf(fed, k) == RMean([i \in DOMAIN fed |-> fed[i][k]])

\* C4: in each of the three epoch-end hooks, every compute-and-emit comes
\* before the print, and the print before every reset, each once; so what is
\* emitted and printed for the phase's two losses is the mean over the steps
\* the accumulators held, not the cleared state, the value emitted for each
\* optional metric is printed too, and the phase's loss accumulators are
\* empty when the hook returns.
EpochEndOrder ==
    last.hook \in EpochEndHooks =>
        LET ph == last.phase
            lm == trainer.logged_metrics
        IN  /\ Before(At(last.ops, ComputeOps), At(last.ops, {"print"}))
            /\ Before(At(last.ops, {"print"}), At(last.ops, ResetOps))
            /\ Once(last.ops, ComputeOps \cup {"print"} \cup ResetOps)
            /\ trainer.stdout # None
            /\ Get(trainer.stdout).phase = ph
            /\ \A k \in 1..2 :
                   LET name == AccName(ph, <<"g_loss", "d_loss">>[k])
                   IN  /\ name \in DOMAIN lm
                       /\ lm[name] = MeanOf(last.since, k)
                       /\ <<name, lm[name]>> \in Get(trainer.stdout).items
                       /\ self.acc[name] = MeanMetric
            /\ \A m \in self.metrics :
                   /\ AccName(ph, m) \in DOMAIN lm
                   /\ <<AccName(ph, m), lm[AccName(ph, m)]>> \in Get(trainer.stdout).items

\* on_validation_epoch_end has returned after two validation steps, with
\* the optional metrics enabled
EpochEndOrderWitness ==
    /\ last.hook = "on_validation_epoch_end"
    /\ Len(last.since) = 2
    /\ self.metrics = {"fid", "is"}

\* the phase whose epoch is about to take its first step, if any
Starting ==
    IF trainer.steps # 0 THEN {}
    ELSE IF trainer.stage = "train" THEN {"train"}
    ELSE IF trainer.stage \in {"sanity", "val"} THEN {"val"}
    ELSE IF trainer.stage = "test" THEN {"test"}
    ELSE {}

\* what an epoch-end hook emitted for the phase's two losses is the mean of
\* column 1 and of column 2 of fed
Emitted(fed) ==
    \A k \in 1..2 :
        LET name == AccName(last.phase, <<"g_loss", "d_loss">>[k])
        IN  /\ name \in DOMAIN trainer.logged_metrics
            /\ trainer.logged_metrics[name] = MeanOf(fed, k)

\* C5: for every phase and epoch, the g_loss and d_loss emitted at the
\* phase's epoch end are the means over the steps of the phase since the
\* phase's previous epoch end, and each loss accumulator of a phase holds no
\* update when the first step of the phase's next epoch begins.
EpochMeans ==
    /\ last.hook \in EpochEndHooks => Emitted(last.since)
    /\ \A ph \in Starting : \A m \in LossNames :
           self.acc[AccName(ph, m)].weight = 0

\* C10: a step that raises ends the run of fit() or test() (no later step of
\* the run executes), and what the phase's accumulators held at that point
\* is discarded: an epoch end of a later run emits the means over the steps
\* of its own run only.
FailureDiscards ==
    /\ last.hook \in StepHooks /\ last.err # None => trainer.mode = "idle"
    /\ last.hook \in EpochEndHooks => Emitted(last.run)

\* C6: validation_step and test_step, returning or raising, run no
\* backward() and no optimizer step() or zero_grad(); they leave the two
\* networks' parameters, their .grad and requires_grad and both optimizers
\* as they were, and of the trainer object only the accumulators of the
\* phase being run change.
EvalFrame ==
    [][StepTaken("validation_step") \/ StepTaken("test_step") =>
        /\ Range(last'.ops) \cap {"g_backward", "d_backward", "g_step", "d_step",
                                  "g_zero_grad", "d_zero_grad"} = {}
        /\ self'.generator = self.generator
        /\ self'.discriminator = self.discriminator
        /\ self'.grad = self.grad
        /\ self'.requires_grad = self.requires_grad
        /\ trainer'.optimizers = trainer.optimizers
        /\ [self' EXCEPT !.acc = self.acc] = self
        /\ DOMAIN self'.acc = DOMAIN self.acc
        /\ \A n \in DOMAIN self.acc : n[1] # last'.phase => self'.acc[n] = self.acc[n]
        /\ last'.err = None =>
               \A m \in LossNames :
                   self'.acc[AccName(last'.phase, m)].weight
                       = self.acc[AccName(last'.phase, m)].weight + 1]_vars

\* a validation_step has returned in a fit() whose optimizers have stepped
EvalFrameWitness ==
    /\ Completed("validation_step")
    /\ trainer.optimizers # None
    /\ Get(trainer.optimizers)[2].steps > 0
    /\ self.acc[AccName("val", "d_loss")].weight > 0

\* the calls a step makes, in order
StepCalls ==
    <<<<"generator", "latent">>, <<"discriminator", "gen_x">>,
      <<"discriminator", "x">>, <<"discriminator", "gen_x.detach()">>,
      <<"gradient_penalty", "x, gen_x">>, <<"discriminator", "inputs">>>>

\* C7: in every training_step, validation_step and test_step of
\* CWGANGPTrainer, every call of the generator, of the discriminator and of
\* gradient_penalty, and the discriminator call gradient_penalty makes on
\* the interpolated input, receives the y of the step's batch; a step that
\* returns has made exactly these six calls.
LabelPassing ==
    last.hook \in StepHooks /\ self.cls = "CWGANGPTrainer" =>
        LET x == Get(last.loc.x).v
            y == Get(last.loc.y)
        IN  /\ \E b \in env.batches \cup env.bad_batches : b[1] = x /\ b[2] = y
            /\ \A i \in DOMAIN last.calls : last.calls[i].nargs = <<y>>
            /\ \A i \in DOMAIN last.calls :
                   <<last.calls[i].fn, last.calls[i].input>> = StepCalls[i]
            /\ last.err = None => Len(last.calls) = Len(StepCalls)

\* a training_step of CWGANGPTrainer has returned on a batch whose two
\* examples have different labels
LabelPassingWitness ==
    /\ Completed("training_step")
    /\ self.cls = "CWGANGPTrainer"
    /\ Get(last.loc.y) = <<1, 0>>
    /\ Len(last.calls) = 6

LatentResolution ==
    last.hook = "__init__" =>
        /\ args.latent_channels # None
               => self.latent_channels = args.latent_channels
        /\ args.latent_channels = None /\ args.generator.in_channels # None
               => self.latent_channels = args.generator.in_channels
        /\ args.latent_channels = None /\ args.generator.in_channels = None
               => /\ self.state = "failed"
                  /\ last.err = Some("AssertionError: The latent_channels should be specified.")
                  /\ self.latent_channels = None
                  /\ DOMAIN self.acc = {}

\* the constructor has raised for want of a latent dimensionality
LatentResolutionWitness ==
    /\ last.hook = "__init__"
    /\ args.latent_channels = None
    /\ args.generator.in_channels = None
    /\ self.state = "failed"

\* C11: an epoch-end hook that runs on loss accumulators that took no update
\* since their last reset raises instead of emitting a value; on one update
\* v it emits v, and on two updates it emits their mean.
EmptyAccumulatorFails ==
    last.hook \in EpochEndHooks =>
        /\ Len(last.since) = 0 => last.err # None
        /\ Len(last.since) = 1 =>
               \A k \in 1..2 :
                   trainer.logged_metrics[AccName(last.phase, <<"g_loss", "d_loss">>[k])]
                       = last.since[1][k]
        /\ Len(last.since) = 2 =>
               \A k \in 1..2 :
                   trainer.logged_metrics[AccName(last.phase, <<"g_loss", "d_loss">>[k])]
                       = RDiv(RAdd(last.since[1][k], last.since[2][k]), RInt(2))

\* C12: a training_step that ends before the generator optimizer's step
\* leaves the generator and its optimizer as they were; one that reaches it
\* steps the generator optimizer once, on the gradient of this step's g_loss
\* alone, and that step is the only change of the generator's parameter;
\* once the discriminator phase has started, whether it returns or raises,
\* it has left no gradient on the generator.
GeneratorIsolation ==
    [][StepTaken("training_step") =>
        LET was == Get(trainer.optimizers)[1]
            now == Get(trainer'.optimizers)[1]
        IN  /\ now.params = "gen"
            /\ "g_step" \notin Range(last'.ops) =>
                   /\ self'.generator = self.generator
                   /\ now = was
            /\ "g_step" \in Range(last'.ops) =>
                   /\ now.steps = was.steps + 1
                   /\ now.applied = {[loss |-> "g_loss", step |-> fuel'.served]}
                   /\ \E val \in AdamMoves(self.generator.w) :
                          self'.generator = [self.generator EXCEPT !.w = val]
            /\ "toggle_d" \in Range(last'.ops) => self'.grad.gen = {}]_vars

\* a training_step has raised in its discriminator phase, after the
\* generator optimizer's second step of the fit()
GeneratorIsolationWitness ==
    /\ last.hook = "training_step"
    /\ last.err # None
    /\ "real_loss" \in Range(last.ops)
    /\ trainer.optimizers # None
    /\ Get(trainer.optimizers)[1].steps = 2
    /\ Get(trainer.optimizers)[2].steps = 1

\* C13: the pl.Trainer of a fit() holds exactly two optimizers, the first on
\* the generator's parameters with generator_lr, the second on the
\* discriminator's with discriminator_lr; while the fit() runs they are not
\* replaced (their step counts never fall), and every training_step takes
\* the first as its generator optimizer and the second as its discriminator
\* optimizer: its g_step steps the first, its d_step the second.
OptimizersFixed ==
    [][/\ trainer'.optimizers # None =>
              LET now == Get(trainer'.optimizers)
              IN  /\ Len(now) = 2
                  /\ now[1].params = "gen" /\ now[1].lr = self'.generator_lr
                  /\ now[2].params = "disc" /\ now[2].lr = self'.discriminator_lr
       /\ trainer.mode = "fit" =>
              /\ trainer'.optimizers # None
              /\ \A k \in 1..2 :
                     Get(trainer'.optimizers)[k].steps >= Get(trainer.optimizers)[k].steps
       /\ StepTaken("training_step") =>
              LET was == Get(trainer.optimizers)
                  now == Get(trainer'.optimizers)
                  ran(op) == IF op \in Range(last'.ops) THEN 1 ELSE 0
              IN  /\ last'.loc.optimizers \in {None, Some(<<1, 2>>)}
                  /\ "toggle_g" \in Range(last'.ops) => last'.loc.optimizers = Some(<<1, 2>>)
                  /\ now[1].steps = was[1].steps + ran("g_step")
                  /\ now[2].steps = was[2].steps + ran("d_step")]_vars

\* a training_step has returned in a second run of fit(), the two learning
\* rates being different
OptimizersFixedWitness ==
    /\ Completed("training_step")
    /\ fuel.served >= 2
    /\ Get(trainer.optimizers)[1].steps = 1
    /\ Get(trainer.optimizers)[2].steps = 1
    /\ self.generator_lr # self.discriminator_lr
    /\ hist.since["train"] # hist.run["train"]

OptionalMetricNames == {"fid", "is"}

\* the calls a hook made on accumulators of the optional metrics, in order
OptionalCalls ==
    LET Optional(c) == c.acc[2] \in OptionalMetricNames
    IN  SelectSeq(last.metric_calls, Optional)

\* the calls on optional accumulators the enabled metrics ask of a step and
\* of an epoch-end hook of a phase
Asked(metric, calls) == IF metric \in self.metrics THEN calls ELSE <<>>

StepAsks(ph) ==
    Asked("fid", <<[acc |-> AccName(ph, "fid"), method |-> "update", input |-> "x, real=True"],
                   [acc |-> AccName(ph, "fid"), method |-> "update", input |-> "gen_x, real=False"]>>)
    \o Asked("is", <<[acc |-> AccName(ph, "is"), method |-> "update", input |-> "gen_x"]>>)

EpochEndAsks(ph) ==
    Asked("fid", <<[acc |-> AccName(ph, "fid"), method |-> "compute", input |-> ""]>>)
    \o Asked("is", <<[acc |-> AccName(ph, "is"), method |-> "compute", input |-> ""]>>)
    \o Asked("fid", <<[acc |-> AccName(ph, "fid"), method |-> "reset", input |-> ""]>>)
    \o Asked("is", <<[acc |-> AccName(ph, "is"), method |-> "reset", input |-> ""]>>)

\* C14: a step hook that returns has updated, of the optional accumulators,
\* those of the enabled metrics and of its own phase and no other: 'fid' with
\* x as real and then gen_x as fake, 'is' with gen_x; a step hook calls no
\* compute() or reset() and touches no accumulator of another phase; an
\* epoch-end hook computes and then resets the enabled optional accumulators
\* of its phase; for a metric that is not enabled no accumulator exists and
\* none is called.
OptionalMetrics ==
    /\ last.hook \in StepHooks =>
           /\ last.err = None => OptionalCalls = StepAsks(last.phase)
           /\ \A i \in DOMAIN last.metric_calls :
                  /\ last.metric_calls[i].acc[1] = last.phase
                  /\ last.metric_calls[i].method \in {"update", "forward"}
                  /\ last.metric_calls[i].acc[2] \in LossNames \cup self.metrics
    /\ last.hook \in EpochEndHooks => OptionalCalls = EpochEndAsks(last.phase)
    /\ self.state = "ok" =>
           \A m \in OptionalMetricNames \ self.metrics : \A ph \in Phases :
               AccName(ph, m) \notin DOMAIN self.acc

\* a validation_step has returned with 'fid' enabled and 'is' not
OptionalMetricsWitness ==
    /\ Completed("validation_step")
    /\ self.metrics = {"fid"}
    /\ Len(OptionalCalls) = 2

InferenceHooks == {"forward", "predict_step"}

\* C15: forward and predict_step call the generator once, with the label in
\* CWGANGPTrainer, and call nothing else: no discriminator, no accumulator;
\* what they return is the generator's output on the latent batch;
\* predict_step's latent batch has one row per example of its batch, each of
\* latent_channels elements; neither changes the trainer object (its
\* parameters, gradients and accumulators) or the optimizers.
InferenceFrame ==
    [][last'.hook \in InferenceHooks /\ last' # last =>
        LET loc == last'.loc
            z == Get(loc.latent).v
        IN  /\ self' = self
            /\ trainer' = trainer
            /\ Len(last'.calls) = 1
            /\ last'.calls[1].fn = "generator"
            /\ last'.calls[1].input = "latent"
            /\ last'.calls[1].nargs =
                   IF self.cls = "CWGANGPTrainer" THEN <<Get(loc.y)>> ELSE <<>>
            /\ last'.metric_calls = <<>>
            /\ last'.err = None
            /\ Get(loc.ret).v =
                   [i \in DOMAIN z |-> <<self.generator.w * z[i][1] + StepLabel(loc, i)>>]
            /\ last'.hook = "predict_step" =>
                   /\ Len(z) = Len(Get(loc.x).v)
                   /\ \A i \in DOMAIN z : Len(z[i]) = Get(self.latent_channels)
                   /\ \E b \in env.batches \cup env.bad_batches :
                          /\ b[1] = Get(loc.x).v
                          /\ self.cls = "CWGANGPTrainer" => b[2] = Get(loc.y)]_vars

\* predict_step has returned on a trainer whose two networks training has
\* changed and whose validation accumulators hold an update
InferenceFrameWitness ==
    /\ Completed("predict_step")
    /\ self.generator.w # args.generator.w
    /\ self.discriminator.v # args.discriminator.v
    /\ self.acc[AccName("val", "g_loss")].weight > 0
    /\ Len(Get(last.loc.x).v) = 2

\* C16: with a discriminator that is the identity scaled by k,
\* gradient_penalty returns (|k| * sqrt(m) - 1)^2 for examples of m elements,
\* whatever the real batch, the fake batch, the drawn alpha and the batch
\* size are; for scalar examples that is (|k| - 1)^2.
PenaltyValue ==
    last.hook = "gradient_penalty" =>
        LET r == Get(last.loc.ret)
            m == Len(args.real[1])
            norm == Abs(args.k) * Sqrt(m)
        IN  /\ r.ok
            /\ r.value = RInt((norm - 1) * (norm - 1))
            /\ m = 1 => r.value = RInt((Abs(args.k) - 1) * (Abs(args.k) - 1))

PenaltyValueWitness ==
    /\ last.hook = "gradient_penalty"
    /\ args.k = -2
    /\ args.real = <<<<1>>>>
    /\ args.fake = <<<<0>>>>
    /\ args.alpha = <<Rat(1, 2)>>
    /\ Get(last.loc.ret).value = RInt(1)

\* the rows of an integer batch as the model's exact fractions
Exactly(rows) ==
    [i \in DOMAIN rows |-> [j \in DOMAIN rows[i] |-> RInt(rows[i][j])]]

\* C17: the input gradient_penalty hands to the model is, element by element,
\* alpha*real + (1 - alpha)*fake with the one alpha of the element's example;
\* it is the real batch when every alpha is 1 and the fake batch when every
\* alpha is 0.
Interpolation ==
    last.hook = "gradient_penalty" =>
        LET inputs == Get(last.loc.ret).inputs
            a == args.alpha
        IN  /\ DOMAIN inputs = DOMAIN args.real
            /\ \A i \in DOMAIN inputs :
                   /\ DOMAIN inputs[i] = DOMAIN args.real[i]
                   /\ \A j \in DOMAIN inputs[i] :
                          inputs[i][j] =
                              RAdd(RMul(a[i], RInt(args.real[i][j])),
                                   RMul(RSub(RInt(1), a[i]), RInt(args.fake[i][j])))
            /\ (\A i \in DOMAIN a : a[i] = RInt(1)) => inputs = Exactly(args.real)
            /\ (\A i \in DOMAIN a : a[i] = RInt(0)) => inputs = Exactly(args.fake)

InterpolationWitness ==
    /\ last.hook = "gradient_penalty"
    /\ args.alpha = <<RInt(1), RInt(1)>>
    /\ args.real = <<<<0, 1, 0, 1>>, <<1, 1, 0, 2>>>>
    /\ args.fake = <<<<1, 1, 0, 2>>, <<1, 1, 0, 2>>>>
    /\ Get(last.loc.ret).inputs = Exactly(args.real)

\* the shape of a batch of rows
ShapeOf(rows) == <<Len(rows), [i \in DOMAIN rows |-> Len(rows[i])]>>

\* C18: a step whose real batch x and fake batch gen_x differ in shape fails,
\* and leaves no penalty value, no discriminator loss, no accumulator update
\* and no discriminator optimizer step.
ShapeMismatchFails ==
    /\ last.hook \in StepHooks
    /\ last.loc.x # None
    /\ last.loc.gen_x # None
    /\ ShapeOf(Get(last.loc.x).v) # ShapeOf(Get(last.loc.gen_x).v)
    => /\ last.err # None
       /\ last.loc.gp_term = None
       /\ last.loc.d_loss = None
       /\ \A i \in DOMAIN last.metric_calls : last.metric_calls[i].method # "update"
       /\ "d_step" \notin Range(last.ops)

\* C19: a step draws one latent batch and calls the generator once, with the
\* parameters the generator had when the step began; what the discriminator
\* scores as fake and what the penalty interpolates with x is that gen_x; in
\* training_step the call comes before the generator's optimizer step.
OneGeneration ==
    [][\A hook \in StepHooks : StepTaken(hook) =>
          LET l == last'
              gens == {i \in DOMAIN l.calls : l.calls[i].fn = "generator"}
              draws == At(l.ops, {"latent"})
              na == IF self.cls = "CWGANGPTrainer" THEN <<Get(l.loc.y)>> ELSE <<>>
              x == Get(l.loc.x).v
              gen_x == Get(l.loc.gen_x).v
          IN  /\ Cardinality(draws) <= 1
              /\ Cardinality(gens) <= 1
              /\ l.err = None =>
                     /\ Cardinality(draws) = 1
                     /\ Cardinality(gens) = 1
                     /\ gen_x = GeneratorForward(self.generator,
                                                 Get(l.loc.latent).v, na)
                     /\ Get(l.loc.fake_loss).v =
                            DiscriminatorForward(self.discriminator, gen_x, na)
                     /\ \E alpha \in Alphas(Len(x)) :
                            Get(l.loc.inputs) = Interpolate(alpha, x, gen_x)
                     /\ hook = "training_step" =>
                            Before(At(l.ops, {"gen_x"}), At(l.ops, {"g_step"}))
      ]_vars

\* a training_step has returned that changed the generator's parameter and
\* whose gen_x differs from what the changed generator makes of the latent
OneGenerationWitness ==
    /\ Completed("training_step")
    /\ Get(trainer.optimizers)[1].steps > 0
    /\ Get(last.loc.gen_x).v # GeneratorForward(self.generator, Get(last.loc.latent).v,
                                    IF self.cls = "CWGANGPTrainer"
                                    THEN <<Get(last.loc.y)>> ELSE <<>>)

\* the statements that open and close the scopes, in the order of the code
ScopeOps == <<"toggle_g", "untoggle_g", "toggle_d", "untoggle_d">>

\* C20: in a training step the generator optimizer's scope is opened and
\* closed, then the discriminator optimizer's, so that never two are open;
\* when the step returns no scope is open and requires_grad of every
\* parameter is what it was when the step began.
ScopesBracketed ==
    [][StepTaken("training_step") =>
          LET scopes == SelectSeq(last'.ops, LAMBDA o : o \in Range(ScopeOps))
          IN  /\ \E n \in 0..Len(ScopeOps) : scopes = SubSeq(ScopeOps, 1, n)
              /\ last'.err = None =>
                     /\ scopes = ScopeOps
                     /\ self'.param_requires_grad_state = None
                     /\ self'.requires_grad = self.requires_grad
      ]_vars

\* a training_step of each optimizer's second scope has returned
ScopesBracketedWitness ==
    /\ Completed("training_step")
    /\ fuel.served = 2
    /\ Get(trainer.optimizers)[2].steps = 2
    /\ self.param_requires_grad_state = None
    /\ \A p \in DOMAIN self.requires_grad : self.requires_grad[p]

\* C21: an accumulator changes only in a step or an epoch-end hook of its own
\* phase; so when on_train_epoch_end follows a validation epoch that ran and
\* ended after the epoch's training batches, the train accumulators still
\* hold every update since their last reset, the epoch's training batches
\* among them, and the train losses emitted are the means over these.
PhaseFrame ==
    [][/\ \A name \in DOMAIN self.acc \cap DOMAIN self'.acc :
              self'.acc[name] # self.acc[name] =>
                  /\ last'.hook \in StepHooks \cup EpochEndHooks
                  /\ last'.phase = name[1]
       /\ trainer.stage = "train_end" /\ last'.hook = "on_train_epoch_end" =>
              LET since == hist.since["train"]
                  run == hist.run["train"]
              IN  /\ run # <<>>
                  /\ Len(run) <= Len(since)
                  /\ SubSeq(since, Len(since) - Len(run) + 1, Len(since)) = run
                  /\ \A k \in 1..2 :
                         LET name == AccName("train", <<"g_loss", "d_loss">>[k])
                         IN  /\ self.acc[name].weight = Len(since)
                             /\ trainer'.logged_metrics[name] = MeanOf(since, k)
      ]_vars

\* the validation epoch that followed an epoch's training batches has ended:
\* the val accumulators are cleared, the train accumulators hold the epoch's
\* updates, and on_train_epoch_end is still to come
PhaseFrameWitness ==
    /\ trainer.stage = "train_end"
    /\ last.hook = "on_validation_epoch_end"
    /\ Len(last.since) > 0
    /\ self.acc[AccName("val", "g_loss")].weight = 0
    /\ hist.run["train"] # <<>>
    /\ self.acc[AccName("train", "g_loss")].weight = Len(hist.run["train"])

====
